---- MODULE Spec2Model ----
(***************************************************************************)
(* A model of log_calls: the settings store (deco_settings.py,             *)
(* DecoSettingsMapping) and the call wrapper with its counters and call    *)
(* history (log_calls.py, class log_calls).                                *)
(*                                                                         *)
(* Python values are records [t, b, n, s]: t is the type name, and b, n, s *)
(* carry the payload of a bool, an int and a str.  A str is the sequence   *)
(* of its characters, so that value[-1] and value[:-1] are computed.       *)
(***************************************************************************)
EXTENDS Integers, Sequences, FiniteSets, TLC

VARIABLES
    tagged,             \* DecoSettingsMapping._tagged_values_dict
    f_params,           \* log_calls.f_params: the signature of f
    prefix,             \* log_calls.prefix
    max_history,        \* log_calls.max_history
    history_maxlen,     \* log_calls._call_history.maxlen (0 stands for None)
    call_history,       \* log_calls._call_history, oldest first
    num_calls_total,    \* log_calls._num_calls_total
    num_calls_logged,   \* log_calls._num_calls_logged
    stack,              \* the wrapper calls in flight, outermost first
    sink,               \* the messages written by logging_fn, in order
    calls,              \* counts of the calls of the wrapper made so far
    last,               \* the last operation, its inputs and its result
    frames,             \* the Python frames from sys._getframe(2) outwards
    curr_frame,         \* call_chain_to_next_log_calls_fn: curr_frame, an
                        \* index into frames (0 stands for None)
    call_list,          \* call_chain_to_next_log_calls_fn: call_list
    found,              \* call_chain_to_next_log_calls_fn: found
    walk_state,         \* where the walker is: idle, start, loop, after_loop,
                        \* returned, or the exception it raised
    deco,               \* the decorators of several decorated functions
    threads             \* the wrapper calls in flight of each thread

walker_vars == <<frames, curr_frame, call_list, found, walk_state>>

thread_vars == <<deco, threads>>

vars == <<tagged, f_params, prefix, max_history, history_maxlen, call_history,
          num_calls_total, num_calls_logged, stack, sink, calls, last,
          walker_vars, thread_vars>>

runtime_vars == <<prefix, max_history, history_maxlen, call_history,
                  num_calls_total, num_calls_logged, stack, sink, calls>>

-----------------------------------------------------------------------------
(* Python values *)

PyNone == [t |-> "NoneType", b |-> FALSE, n |-> 0, s |-> <<>>]

PyBool(x) == [t |-> "bool", b |-> x, n |-> 0, s |-> <<>>]

PyInt(k) == [t |-> "int", b |-> FALSE, n |-> k, s |-> <<>>]

PyStr(q) == [t |-> "str", b |-> FALSE, n |-> 0, s |-> q]

PyLogger == [t |-> "Logger", b |-> FALSE, n |-> 0, s |-> <<>>]

\* bool(v): None, False, 0 and '' are falsy; a Logger is truthy
Truthy(v) ==
    CASE v.t = "bool" -> v.b
      [] v.t = "int" -> v.n # 0
      [] v.t = "str" -> v.s # <<>>
      [] v.t = "Logger" -> TRUE
      [] OTHER -> FALSE

\* isinstance(v, ty): bool is a subclass of int
isinstance(v, ty) ==
    IF ty = "int" THEN v.t \in {"int", "bool"} ELSE v.t = ty

\* logging.DEBUG
DEBUG == 10

KEYWORD_MARKER == "="

\* s[:-1]
ButLast(q) == SubSeq(q, 1, Len(q) - 1)

-----------------------------------------------------------------------------
(* The registry of settings *)

DecoSetting(final_type, default, allow_falsy, allow_indirect) ==
    [final_type |-> final_type, default |-> default,
     allow_falsy |-> allow_falsy, allow_indirect |-> allow_indirect]

_setting_info_list ==
    [enabled         |-> DecoSetting("int",    PyBool(FALSE),         TRUE,  TRUE),
     log_args        |-> DecoSetting("bool",   PyBool(TRUE),          TRUE,  TRUE),
     log_retval      |-> DecoSetting("bool",   PyBool(FALSE),         TRUE,  TRUE),
     log_exit        |-> DecoSetting("bool",   PyBool(TRUE),          TRUE,  TRUE),
     args_sep        |-> DecoSetting("str",    PyStr(<<",", " ">>),   FALSE, TRUE),
     prefix          |-> DecoSetting("str",    PyStr(<<>>),           TRUE,  FALSE),
     logger          |-> DecoSetting("Logger", PyNone,               TRUE,  TRUE),
     loglevel        |-> DecoSetting("int",    PyInt(DEBUG),          FALSE, TRUE),
     record_history  |-> DecoSetting("bool",   PyBool(FALSE),         TRUE,  TRUE),
     max_history     |-> DecoSetting("int",    PyInt(0),              TRUE,  FALSE),
     log_call_number |-> DecoSetting("bool",   PyBool(TRUE),          TRUE,  TRUE),
     log_elapsed     |-> DecoSetting("bool",   PyBool(FALSE),         TRUE,  TRUE)]

get_settings_for_class == _setting_info_list

SettingNames == DOMAIN _setting_info_list

-----------------------------------------------------------------------------
(* DecoSettingsMapping *)

\* Mutant of strip_marker: every trailing KEYWORD_MARKER is removed
RECURSIVE strip_marker_all(_)
strip_marker_all(q) ==
    IF q # <<>> /\ q[Len(q)] = KEYWORD_MARKER THEN strip_marker_all(ButLast(q)) ELSE q

\* A non-empty str given to a setting that is not a str names a keyword of f:
\* one trailing KEYWORD_MARKER, if any, is removed
strip_marker(q) ==
    IF q[Len(q)] = KEYWORD_MARKER THEN ButLast(q) ELSE q

\* Mutant of str_is_indirect: KEYWORD_MARKER anywhere in the str
str_is_indirect_anywhere(q) == \E i \in 1..Len(q) : q[i] = KEYWORD_MARKER /\ i < Len(q)

\* A non-empty str given to a str setting names a keyword of f iff its last
\* character is KEYWORD_MARKER
str_is_indirect(q) == q[Len(q)] = KEYWORD_MARKER

\* Mutant of tagged_pair: allow_indirect is not looked at, a str that ends in
\* KEYWORD_MARKER is stored as an indirect value for every setting
tagged_pair_any_indirect(key, value) ==
    IF value.t = "str" /\ value.s # <<>> /\ str_is_indirect(value.s)
    THEN [indirect |-> TRUE, value |-> PyStr(ButLast(value.s))]
    ELSE [indirect |-> FALSE, value |-> value]

\* The pair __setitem__ stores for a key of the registry.  allow_falsy is
\* read from info.default, as the code does.
tagged_pair(key, value) ==
    LET info == get_settings_for_class[key]
        final_type == info.final_type
        default == info.default
        allow_falsy == Truthy(info.default)
        allow_indirect == info.allow_indirect
    IN  IF ~allow_indirect
        THEN [indirect |-> FALSE, value |-> value]
        ELSE IF value.t # "str" \/ ~Truthy(value)
        THEN IF (~Truthy(value) /\ ~allow_falsy) \/ ~isinstance(value, final_type)
             THEN [indirect |-> FALSE, value |-> default]
             ELSE [indirect |-> FALSE, value |-> value]
        ELSE IF final_type # "str"
        THEN [indirect |-> TRUE, value |-> PyStr(strip_marker(value.s))]
        ELSE IF str_is_indirect(value.s)
             THEN [indirect |-> TRUE, value |-> PyStr(ButLast(value.s))]
             ELSE [indirect |-> FALSE, value |-> value]

\* Mutant of __setitem__: KeyError is raised after the pair was stored
__setitem___stores_first(d, key, value) ==
    [raised |-> IF key \notin DOMAIN get_settings_for_class THEN "KeyError" ELSE "",
     d |-> [k \in DOMAIN d \cup {key} |->
               IF k # key THEN d[k]
               ELSE IF key \in DOMAIN get_settings_for_class
               THEN tagged_pair(key, value)
               ELSE [indirect |-> FALSE, value |-> value]]]

\* self[key] = value: the new dict, or KeyError with the dict as it was
__setitem__(d, key, value) ==
    IF key \notin DOMAIN get_settings_for_class
    THEN [raised |-> "KeyError", d |-> d]
    ELSE [raised |-> "",
          d |-> [k \in DOMAIN d \cup {key} |->
                    IF k = key THEN tagged_pair(key, value) ELSE d[k]]]

\* update(**d_settings): __setitem__ of every item in turn; the first KeyError
\* ends it, with the items before it stored
RECURSIVE update(_, _)
update(d, d_settings) ==
    IF d_settings = <<>>
    THEN [raised |-> "", d |-> d]
    ELSE LET r == __setitem__(d, Head(d_settings).key, Head(d_settings).value)
         IN  IF r.raised # "" THEN r ELSE update(r.d, Tail(d_settings))

\* Mutant of __getitem__: the keyword name is returned without the marker
__getitem___bare(d, key) == d[key].value

\* self[key]
__getitem__(d, key) ==
    IF d[key].indirect
    THEN PyStr(Append(d[key].value.s, KEYWORD_MARKER))
    ELSE d[key].value

\* items(): the pairs (name, self[name]), as a mapping
items(d) == [name \in DOMAIN d |-> __getitem__(d, name)]

\* as_dict()
as_dict(d) == [name \in DOMAIN d |-> __getitem__(d, name)]

\* The parameters of f: inspect.signature(f).parameters, in order
Param(name, kind, has_default, default) ==
    [name |-> name, kind |-> kind, has_default |-> has_default, default |-> default]

\* fparams.get(name) is not None
has_param(fparams, name) == \E i \in 1..Len(fparams) : fparams[i].name = name

\* fparams[name]
param_of(fparams, name) ==
    fparams[CHOOSE i \in 1..Len(fparams) : fparams[i].name = name]

\* helpers.is_keyword_param(fparams.get(name)): the parameter exists and is
\* keyword-only, or positional-or-keyword with a default
is_keyword_param(fparams, name) ==
    /\ has_param(fparams, name)
    /\ \/ param_of(fparams, name).kind = "KEYWORD_ONLY"
       \/ /\ param_of(fparams, name).kind = "POSITIONAL_OR_KEYWORD"
          /\ param_of(fparams, name).has_default

\* Mutant of designated_value: the default f declares wins over the keyword
\* as passed
designated_value_declared_first(di_val, fparams, kwargs, default) ==
    IF is_keyword_param(fparams, di_val)
    THEN param_of(fparams, di_val).default
    ELSE IF di_val \in DOMAIN kwargs
    THEN kwargs[di_val]
    ELSE default

\* The value an indirect setting designates: the keyword as passed to f, else
\* the default f declares for it, else the default of the setting
designated_value(di_val, fparams, kwargs, default) ==
    IF di_val \in DOMAIN kwargs
    THEN kwargs[di_val]
    ELSE IF is_keyword_param(fparams, di_val)
    THEN param_of(fparams, di_val).default
    ELSE default

\* Mutant of fixup: every designated value is replaced by the default
fixup_always_default(setting_info, val) == setting_info.default

\* The fixup of a designated value; allow_falsy is read from
\* setting_info.default, as the code does
fixup(setting_info, val) ==
    LET final_type == setting_info.final_type
        default == setting_info.default
        allow_falsy == Truthy(setting_info.default)
    IN  IF (~Truthy(val) /\ ~allow_falsy)
           \/ (Truthy(val) /\ ~isinstance(val, final_type))
        THEN default
        ELSE val

get_final_value(d, name, fparams, kwargs) ==
    IF ~d[name].indirect
    THEN d[name].value
    ELSE LET setting_info == get_settings_for_class[name]
             di_val == d[name].value.s
         IN  fixup(setting_info,
                   designated_value(di_val, fparams, kwargs, setting_info.default))

-----------------------------------------------------------------------------
(* log_calls: construction, counters and call history *)

\* The defaults of the parameters of log_calls.__init__
init_defaults ==
    [enabled         |-> PyBool(TRUE),
     log_args        |-> PyBool(TRUE),
     log_retval      |-> PyBool(FALSE),
     log_exit        |-> PyBool(TRUE),
     args_sep        |-> PyStr(<<",", " ">>),
     prefix          |-> PyStr(<<>>),
     logger          |-> PyNone,
     loglevel        |-> PyInt(DEBUG),
     record_history  |-> PyBool(FALSE),
     max_history     |-> PyInt(0),
     log_call_number |-> PyBool(FALSE),
     log_elapsed     |-> PyBool(FALSE)]

\* log_calls(**given): the arguments, with the defaults for those not given
init_args(given) ==
    [k \in DOMAIN init_defaults |->
        IF k \in DOMAIN given THEN given[k] ELSE init_defaults[k]]

\* DecoSettingsMapping.__init__: __setitem__ of every item of values_dict
settings_mapping_init(values_dict) ==
    [k \in DOMAIN values_dict |-> tagged_pair(k, values_dict[k])]

\* The int that max_history is compared as (True is 1, False is 0)
as_int(v) == IF v.t = "bool" THEN (IF v.b THEN 1 ELSE 0) ELSE v.n

\* _make_call_history: the maxlen of the new, empty deque (0 stands for None)
_make_call_history(mh) == IF mh > 0 THEN mh ELSE 0

\* Mutant of history_append: a full bounded deque refuses the new item
history_append_keep_oldest(q, maxlen, rec) ==
    IF maxlen > 0 /\ Len(q) >= maxlen THEN q ELSE Append(q, rec)

\* deque.append of _call_history: a full bounded deque drops its oldest item
history_append(q, maxlen, rec) ==
    IF maxlen > 0 /\ Len(q) >= maxlen
    THEN Append(Tail(q), rec)
    ELSE Append(q, rec)

\* Mutant of _add_call: only num_calls_total is incremented
_add_call_total_only(total, nlogged, logged) == <<total + 1, nlogged>>

\* Mutant of _add_call: the call is counted as logged whatever the flag
_add_call_always_logged(total, nlogged, logged) == <<total + 1, nlogged + 1>>

\* _add_call: the new (num_calls_total, num_calls_logged)
_add_call(total, nlogged, logged) ==
    <<total + 1, IF logged THEN nlogged + 1 ELSE nlogged>>

\* f.__name__
f_name == <<"f">>

\* Mutant of prefixed_fname: the prefix is read from the settings at each use
prefixed_fname_from_settings == tagged["prefix"].value.s \o f_name

\* prefixed_fname, saved by __call__
prefixed_fname == prefix \o f_name

-----------------------------------------------------------------------------
(* The wrapper f_log_calls_wrapper_ *)

\* argnames = f.__code__.co_varnames[:f.__code__.co_argcount]
argnames(fparams) ==
    {fparams[i].name : i \in {j \in 1..Len(fparams) :
                                fparams[j].kind = "POSITIONAL_OR_KEYWORD"}}

param_names(fparams) == {fparams[i].name : i \in 1..Len(fparams)}

explicit_kwargs(fparams, kwargs) ==
    LET ks == {k \in param_names(fparams) :
                  k \in DOMAIN kwargs /\ is_keyword_param(fparams, k)}
    IN  [k \in ks |-> kwargs[k]]

\* difference_update(kwargs.copy(), explicit_kwargs)
implicit_kwargs(fparams, kwargs) ==
    [k \in DOMAIN kwargs \ DOMAIN explicit_kwargs(fparams, kwargs) |-> kwargs[k]]

defaulted_kwargs(fparams, kwargs) ==
    LET ks == {k \in param_names(fparams) :
                  /\ is_keyword_param(fparams, k)
                  /\ k \notin DOMAIN kwargs
                  /\ k \notin argnames(fparams)}
    IN  [k \in ks |-> param_of(fparams, k).default]

\* The first of the dicts that has the key decides
dicts_merged(d1, d2, d3) ==
    [k \in DOMAIN d1 \cup DOMAIN d2 \cup DOMAIN d3 |->
        IF k \in DOMAIN d1 THEN d1[k]
        ELSE IF k \in DOMAIN d2 THEN d2[k] ELSE d3[k]]

\* _get_final_value of the wrapper: the kwargs of the call and self.f_params
_get_final_value(setting_name, kwargs) ==
    get_final_value(tagged, setting_name, f_params, kwargs)

\* _add_to_history with every argument bound to the parameter of its name
\* (not what the call of the wrapper does, see _add_to_history_bound)
_add_to_history_bound_by_name(fparams, kwargs, retval, elapsed_secs) ==
    [explicit_kwargs |-> explicit_kwargs(fparams, kwargs),
     defaulted_kwargs |-> defaulted_kwargs(fparams, kwargs),
     implicit_kwargs |-> implicit_kwargs(fparams, kwargs),
     retval |-> retval,
     elapsed_secs |-> elapsed_secs]

\* The parameters of _add_to_history as the call of the wrapper binds them.
\* The call passes seven positional arguments, argnames first, and they bind
\* to call_num, argnames, argvals, varargs, explicit_kwargs, defaulted_kwargs
\* and implicit_kwargs: each dict of keyword arguments lands one parameter
\* early, what f returned lands in implicit_kwargs, and retval keeps its
\* default None.  elapsed_secs is passed by keyword.  In the field
\* implicit_kwargs an empty dict stands for what f returned, which holds no
\* keyword of the call.
_add_to_history_bound(fparams, kwargs, retval, elapsed_secs) ==
    [explicit_kwargs |-> defaulted_kwargs(fparams, kwargs),
     defaulted_kwargs |-> implicit_kwargs(fparams, kwargs),
     implicit_kwargs |-> [k \in {} |-> PyNone],
     retval |-> PyNone,
     elapsed_secs |-> elapsed_secs]

\* record_history as _add_to_history resolves it: against the three dicts of
\* keyword arguments it was given, with fparams=None
record_history_of(d, bound) ==
    get_final_value(d, "record_history", <<>>,
                    dicts_merged(bound.explicit_kwargs, bound.defaulted_kwargs,
                                 bound.implicit_kwargs))

record_history_final(kwargs) ==
    record_history_of(tagged,
                      _add_to_history_bound(f_params, kwargs, PyNone, 0))

\* CallRecord; id stands for the arguments and the timestamp of the call
CallRecord(call_num, id, retval, elapsed_secs) ==
    [call_num |-> call_num, id |-> id, retval |-> retval,
     elapsed_secs |-> elapsed_secs]

\* A message written by logging_fn; id is the call that wrote it
Message(kind, id, number, text, frame) ==
    [kind |-> kind, id |-> id, name |-> prefixed_fname, number |-> number,
     text |-> text, to_logger |-> frame.to_logger, loglevel |-> frame.loglevel]

\* str(retval)
py_str(v) ==
    CASE v.t = "str" -> v.s
      [] v.t = "NoneType" -> <<"N", "o", "n", "e">>
      [] v.t = "bool" -> IF v.b THEN <<"T", "r", "u", "e">>
                         ELSE <<"F", "a", "l", "s", "e">>
      [] OTHER -> <<"?">>

MAXLEN_RETVALS == 60

\* Mutant of retval_str: a str of MAXLEN_RETVALS characters is cut as well
retval_str_cut_at_maxlen(retval) ==
    IF Len(py_str(retval)) >= MAXLEN_RETVALS
    THEN SubSeq(py_str(retval), 1, MAXLEN_RETVALS) \o <<".", ".", ".">>
    ELSE py_str(retval)

\* The text of the return value in the "return value" message
retval_str(retval) ==
    IF Len(py_str(retval)) > MAXLEN_RETVALS
    THEN SubSeq(py_str(retval), 1, MAXLEN_RETVALS) \o <<".", ".", ".">>
    ELSE py_str(retval)


-----------------------------------------------------------------------------
(* Bounds and inputs *)

\* The calls of the wrapper in one behaviour
MaxCalls == 2

\* The calls of the wrapper in flight at once (f calling the wrapper again)
MaxDepth == 2

\* The str of n characters c
Repeat(c, n) == [i \in 1..n |-> c]

\* The values f returns: None, and a str of MAXLEN_RETVALS characters and one
\* of MAXLEN_RETVALS + 1
RetVals ==
    {PyNone, PyStr(Repeat("y", MAXLEN_RETVALS)), PyStr(Repeat("y", MAXLEN_RETVALS + 1))}

ElapsedSecs == {2}

ClearValues == {-1, 0, 2}

\* Keyword names as Python strs
kw_e == <<"e">>

kw_k == <<"k">>

NoKwargs == [x \in {} |-> PyNone]

OneKwarg(k, v) == [x \in {k} |-> v]

\* def f(a, **kwargs)
SigPlain ==
    <<Param(<<"a">>, "POSITIONAL_OR_KEYWORD", FALSE, PyNone),
      Param(<<"kwargs">>, "VAR_KEYWORD", FALSE, PyNone)>>

\* def f(a, <k>=<default>, **kwargs)
SigDefault(k, default) ==
    <<Param(<<"a">>, "POSITIONAL_OR_KEYWORD", FALSE, PyNone),
      Param(k, "POSITIONAL_OR_KEYWORD", TRUE, default),
      Param(<<"kwargs">>, "VAR_KEYWORD", FALSE, PyNone)>>

\* def f(a, *, <k>=<default>, **kwargs)
SigKwOnly(k, default) ==
    <<Param(<<"a">>, "POSITIONAL_OR_KEYWORD", FALSE, PyNone),
      Param(k, "KEYWORD_ONLY", TRUE, default),
      Param(<<"kwargs">>, "VAR_KEYWORD", FALSE, PyNone)>>

RuntimeSignatures == {SigPlain, SigDefault(kw_e, PyBool(TRUE))}

\* The calls made: f(1), f(1, e=True), f(1, e=False) and, where f declares
\* e as its second parameter, f(1, False)
CallInputs(fparams) ==
    {[args |-> <<PyInt(1)>>, kwargs |-> kw] :
        kw \in {NoKwargs, OneKwarg(kw_e, PyBool(TRUE)), OneKwarg(kw_e, PyBool(FALSE))}}
    \cup (IF has_param(fparams, kw_e)
          THEN {[args |-> <<PyInt(1), PyBool(FALSE)>>, kwargs |-> NoKwargs]}
          ELSE {})

\* The arguments of log_calls in the decorations explored
RuntimeGiven ==
    {[enabled |-> e, record_history |-> r, max_history |-> PyInt(m)] :
        e \in {PyBool(TRUE), PyStr(kw_e)}, r \in {PyBool(TRUE), PyBool(FALSE)},
        m \in {0, 1}}
    \cup {[record_history |-> PyBool(TRUE), log_call_number |-> PyBool(TRUE),
           log_retval |-> PyBool(TRUE), log_elapsed |-> PyBool(TRUE)]}

\* The writes to the settings explored while calls are made
RuntimeItems ==
    {[key |-> "enabled", value |-> PyBool(FALSE)],
     [key |-> "record_history", value |-> PyBool(TRUE)],
     [key |-> "args_sep", value |-> PyStr(<<>>)]}

Top == stack[Len(stack)]

Pop == SubSeq(stack, 1, Len(stack) - 1)

\* A call in flight: f is running.  counted is how often the wrapper of this
\* call has incremented num_calls_total so far.
Frame(id, args, kwargs, logged, number, to_logger, loglevel, counted) ==
    [id |-> id, args |-> args, kwargs |-> kwargs, f_args |-> args,
     f_kwargs |-> kwargs, logged |-> logged, number |-> number,
     to_logger |-> to_logger, loglevel |-> loglevel, counted |-> counted]

-----------------------------------------------------------------------------
(* The operations *)

\* The wrapper up to the call of f, with enabled falsy: count the call and
\* call f
EnterDisabled(id, args, kwargs) ==
    LET counted == _add_call(num_calls_total, num_calls_logged, FALSE)
    IN  /\ num_calls_total' = counted[1]
        /\ num_calls_logged' = counted[2]
        /\ stack' = Append(stack, Frame(id, args, kwargs, FALSE, 0, FALSE, 0, 1))
        /\ last' = [op |-> "call", id |-> id, enabled |-> FALSE, raised |-> "",
                    args |-> args, kwargs |-> kwargs]
        /\ UNCHANGED <<sink, call_history>>

\* The separator of the arguments in the entry message: one that ends in a
\* newline is replaced by a newline and two indents
separator(args_sep) ==
    IF args_sep # <<>> /\ args_sep[Len(args_sep)] = "\n"
    THEN <<"\n", " ", " ", " ", " ", " ", " ", " ", " ">>
    ELSE args_sep

\* The wrapper up to the call of f, with enabled truthy: resolve the
\* settings of the entry message, write it and call f.  args_sep[-1] raises
\* when args_sep is '' or is no str.  The callers are module-level code of
\* the main thread and f itself, for which call_chain_to_next_log_calls_fn
\* returns; the walk itself is modelled under SpecWalker.
EnterEnabled(id, args, kwargs) ==
    LET logger == _get_final_value("logger", kwargs)
        loglevel == _get_final_value("loglevel", kwargs)
        number == IF Truthy(_get_final_value("log_call_number", kwargs))
                  THEN num_calls_logged + 1 ELSE 0
        log_args == Len(f_params) > 0 /\ Truthy(_get_final_value("log_args", kwargs))
        args_sep == IF log_args THEN _get_final_value("args_sep", kwargs)
                    ELSE PyNone
        frame == Frame(id, args, kwargs, TRUE, number, Truthy(logger),
                       IF Truthy(logger) THEN as_int(loglevel) ELSE 0, 0)
    IN  IF log_args /\ ~Truthy(args_sep)
        THEN /\ last' = [op |-> "call", id |-> id, enabled |-> TRUE,
                         raised |-> IF args_sep.t = "str" THEN "IndexError"
                                    ELSE "TypeError",
                         args |-> args, kwargs |-> kwargs]
             /\ UNCHANGED <<num_calls_total, num_calls_logged, stack, sink,
                            call_history>>
        ELSE /\ sink' = Append(sink, Message("entry", id, number,
                                          separator(args_sep.s), frame))
             /\ stack' = Append(stack, frame)
             /\ last' = [op |-> "call", id |-> id, enabled |-> TRUE, raised |-> "",
                         args |-> args, kwargs |-> kwargs,
                         explicit_kwargs |-> explicit_kwargs(f_params, kwargs),
                         implicit_kwargs |-> implicit_kwargs(f_params, kwargs),
                         defaulted_kwargs |-> defaulted_kwargs(f_params, kwargs)]
             /\ UNCHANGED <<num_calls_total, num_calls_logged, call_history>>

\* Mutant of Call: a value passed by position for the second parameter of f
\* is looked up as if it had been passed by keyword
Call_positional_overrides ==
    /\ calls.begun < MaxCalls
    /\ Len(stack) < MaxDepth
    /\ \E c \in CallInputs(f_params) :
          LET seen == IF Len(c.args) >= 2
                      THEN OneKwarg(f_params[2].name, c.args[2])
                      ELSE c.kwargs
          IN  /\ IF Truthy(_get_final_value("enabled", seen))
                 THEN EnterEnabled(calls.begun + 1, c.args, c.kwargs)
                 ELSE EnterDisabled(calls.begun + 1, c.args, c.kwargs)
              /\ calls' = [calls EXCEPT !.begun = @ + 1]
    /\ UNCHANGED <<tagged, f_params, prefix, max_history, history_maxlen>>
    /\ UNCHANGED <<walker_vars, thread_vars>>

\* A call of the wrapper, from the top level or from the body of f
Call ==
    /\ calls.begun < MaxCalls
    /\ Len(stack) < MaxDepth
    /\ \E c \in CallInputs(f_params) :
          /\ IF Truthy(_get_final_value("enabled", c.kwargs))
             THEN EnterEnabled(calls.begun + 1, c.args, c.kwargs)
             ELSE EnterDisabled(calls.begun + 1, c.args, c.kwargs)
          /\ calls' = [calls EXCEPT !.begun = @ + 1]
    /\ UNCHANGED <<tagged, f_params, prefix, max_history, history_maxlen>>
    /\ UNCHANGED <<walker_vars, thread_vars>>

\* Mutant of post_messages: the exit message is written first
post_messages_exit_first(m1, m2, m3) == m3 \o m1 \o m2

\* The messages written after f returned: the return value, the elapsed
\* time, the exit, each if its setting resolved truthy
post_messages(m1, m2, m3) == m1 \o m2 \o m3

\* Mutant of LoggedReturn: log_exit is not resolved after f returned, the
\* exit message is written whenever the entry message was
LoggedReturn_exit_as_entered(frame, retval, elapsed_secs) ==
    LET bound == _add_to_history_bound(f_params, frame.kwargs, retval,
                                       elapsed_secs)
        record_history == record_history_of(tagged, bound)
        history == IF Truthy(record_history)
                   THEN history_append(call_history, history_maxlen,
                            CallRecord(num_calls_logged + 1, frame.id,
                                       bound.retval, bound.elapsed_secs))
                   ELSE call_history
        counted == _add_call(num_calls_total, num_calls_logged, TRUE)
        m1 == IF Truthy(_get_final_value("log_retval", frame.kwargs))
              THEN <<Message("retval", frame.id, 0, retval_str(retval), frame)>>
              ELSE <<>>
        m2 == IF Truthy(_get_final_value("log_elapsed", frame.kwargs))
              THEN <<Message("elapsed", frame.id, elapsed_secs, <<>>, frame)>>
              ELSE <<>>
        m3 == <<Message("exit", frame.id, frame.number, <<>>, frame)>>
    IN  /\ call_history' = history
        /\ num_calls_total' = counted[1]
        /\ num_calls_logged' = counted[2]
        /\ sink' = sink \o post_messages(m1, m2, m3)
        /\ calls' = [calls EXCEPT
                     !.returned = @ + 1,
                     !.returned_enabled = @ + 1,
                     !.recorded = IF Truthy(record_history)
                                  THEN Append(@, frame.id) ELSE @]
        /\ last' = [op |-> "return", id |-> frame.id, enabled |-> TRUE,
                    retval |-> retval, result |-> retval,
                    elapsed_secs |-> elapsed_secs,
                    counted |-> frame.counted + 1,
                    recorded |-> Truthy(record_history),
                    log_retval |->
                        Truthy(_get_final_value("log_retval", frame.kwargs))]

\* _add_to_history and the rest of the wrapper, after f returned retval
LoggedReturn(frame, retval, elapsed_secs) ==
    LET bound == _add_to_history_bound(f_params, frame.kwargs, retval,
                                       elapsed_secs)
        record_history == record_history_of(tagged, bound)
        history == IF Truthy(record_history)
                   THEN history_append(call_history, history_maxlen,
                            CallRecord(num_calls_logged + 1, frame.id,
                                       bound.retval, bound.elapsed_secs))
                   ELSE call_history
        counted == _add_call(num_calls_total, num_calls_logged, TRUE)
        m1 == IF Truthy(_get_final_value("log_retval", frame.kwargs))
              THEN <<Message("retval", frame.id, 0, retval_str(retval), frame)>>
              ELSE <<>>
        m2 == IF Truthy(_get_final_value("log_elapsed", frame.kwargs))
              THEN <<Message("elapsed", frame.id, elapsed_secs, <<>>, frame)>>
              ELSE <<>>
        m3 == IF Truthy(_get_final_value("log_exit", frame.kwargs))
              THEN <<Message("exit", frame.id, frame.number, <<>>, frame)>>
              ELSE <<>>
    IN  /\ call_history' = history
        /\ num_calls_total' = counted[1]
        /\ num_calls_logged' = counted[2]
        /\ sink' = sink \o post_messages(m1, m2, m3)
        /\ calls' = [calls EXCEPT
                     !.returned = @ + 1,
                     !.returned_enabled = @ + 1,
                     !.recorded = IF Truthy(record_history)
                                  THEN Append(@, frame.id) ELSE @]
        /\ last' = [op |-> "return", id |-> frame.id, enabled |-> TRUE,
                    retval |-> retval, result |-> retval,
                    elapsed_secs |-> elapsed_secs,
                    counted |-> frame.counted + 1,
                    recorded |-> Truthy(record_history),
                    log_retval |->
                        Truthy(_get_final_value("log_retval", frame.kwargs))]

\* f returns: the wrapper of the innermost call in flight runs to its end
Return ==
    /\ stack # <<>>
    /\ \E retval \in RetVals, elapsed_secs \in ElapsedSecs :
          IF Top.logged
          THEN LoggedReturn(Top, retval, elapsed_secs)
          ELSE /\ last' = [op |-> "return", id |-> Top.id, enabled |-> FALSE,
                           retval |-> retval, result |-> retval,
                           counted |-> Top.counted, recorded |-> FALSE]
               /\ calls' = [calls EXCEPT !.returned = @ + 1]
               /\ UNCHANGED <<call_history, num_calls_total, num_calls_logged,
                              sink>>
    /\ stack' = Pop
    /\ UNCHANGED <<tagged, f_params, prefix, max_history, history_maxlen>>
    /\ UNCHANGED <<walker_vars, thread_vars>>

\* f raises: nothing in the wrapper catches, the exception leaves the wrapper
Raise ==
    /\ stack # <<>>
    /\ stack' = Pop
    /\ last' = [op |-> "raise", id |-> Top.id, enabled |-> Top.logged,
                counted |-> Top.counted]
    /\ UNCHANGED <<tagged, f_params, prefix, max_history, history_maxlen,
                   call_history, num_calls_total, num_calls_logged, sink, calls>>
    /\ UNCHANGED <<walker_vars, thread_vars>>

\* Mutant of ClearHistory: the deque is made before self.max_history is set
ClearHistory_stale_capacity ==
    \E m \in ClearValues :
        /\ num_calls_logged' = 0
        /\ num_calls_total' = 0
        /\ max_history' = m
        /\ history_maxlen' = _make_call_history(max_history)
        /\ call_history' = <<>>
        /\ tagged' = __setitem__(tagged, "max_history", PyInt(m)).d
        /\ calls' = [calls EXCEPT !.returned = 0, !.returned_enabled = 0,
                                  !.recorded = <<>>]
        /\ last' = [op |-> "clear_history", m |-> m]
        /\ UNCHANGED <<f_params, prefix, stack, sink, walker_vars, thread_vars>>

\* clear_history(max_history=m), from the top level or from the body of f
ClearHistory ==
    \E m \in ClearValues :
        /\ num_calls_logged' = 0
        /\ num_calls_total' = 0
        /\ max_history' = m
        /\ history_maxlen' = _make_call_history(m)
        /\ call_history' = <<>>
        /\ tagged' = __setitem__(tagged, "max_history", PyInt(m)).d
        /\ calls' = [calls EXCEPT !.returned = 0, !.returned_enabled = 0,
                                  !.recorded = <<>>]
        /\ last' = [op |-> "clear_history", m |-> m]
        /\ UNCHANGED <<f_params, prefix, stack, sink, walker_vars, thread_vars>>

\* log_calls_settings[key] = value, from the top level or from the body of f
SetItem ==
    \E kv \in RuntimeItems :
        /\ tagged' = __setitem__(tagged, kv.key, kv.value).d
        /\ last' = [op |-> "set", key |-> kv.key, value |-> kv.value,
                    raised |-> __setitem__(tagged, kv.key, kv.value).raised]
        /\ UNCHANGED <<f_params, runtime_vars, walker_vars, thread_vars>>

\* calls: begun counts the calls ever begun; since decoration or the last
\* clear_history, returned counts the calls that returned, returned_enabled
\* those of them whose enabled was truthy, and recorded lists the calls that
\* appended a record
NoCalls == [begun |-> 0, returned |-> 0, returned_enabled |-> 0, recorded |-> <<>>]

\* No walk of the Python frames is under way
NoWalk ==
    /\ frames = <<>>
    /\ curr_frame = 0
    /\ call_list = <<>>
    /\ found = FALSE
    /\ walk_state = "idle"

\* No further decorated function, no thread
NoThreads ==
    /\ deco = <<>>
    /\ threads = <<>>

\* The state after @log_calls(**given) has decorated f
Decorated(given, fparams) ==
    /\ tagged = settings_mapping_init(init_args(given))
    /\ f_params = fparams
    /\ prefix = init_args(given).prefix.s
    /\ max_history = as_int(init_args(given).max_history)
    /\ history_maxlen = _make_call_history(as_int(init_args(given).max_history))
    /\ call_history = <<>>
    /\ num_calls_total = 0
    /\ num_calls_logged = 0
    /\ stack = <<>>
    /\ sink = <<>>
    /\ calls = NoCalls

Init ==
    \E given \in RuntimeGiven, fparams \in RuntimeSignatures :
        /\ Decorated(given, fparams)
        /\ last = [op |-> "init", given |-> given]
        /\ NoWalk
        /\ NoThreads

Next == Call \/ Return \/ Raise \/ ClearHistory \/ SetItem

Spec == Init /\ [][Next]_vars

-----------------------------------------------------------------------------
(* The settings store on its own: one setting of a decoration is written,  *)
(* read and resolved.  __setitem__, __getitem__ and get_final_value touch   *)
(* only the entry of the key they are given.                                *)

StoreValues ==
    {PyNone, PyBool(TRUE), PyBool(FALSE), PyInt(0), PyInt(1), PyLogger,
     PyStr(<<>>), PyStr(<<"$">>), PyStr(<<"k">>), PyStr(<<"e">>),
     PyStr(<<"k", "=">>), PyStr(<<"k", "=", "=">>)}

StoreKwargValues ==
    {PyNone, PyBool(TRUE), PyBool(FALSE), PyInt(0), PyInt(1), PyLogger,
     PyStr(<<>>), PyStr(<<"$">>)}

StoreKwargs ==
    {NoKwargs}
    \cup {OneKwarg(k, v) : k \in {kw_k, kw_e}, v \in StoreKwargValues}
    \cup {[x \in {kw_k, kw_e} |-> IF x = kw_k THEN v ELSE PyInt(1)] :
             v \in {PyBool(FALSE), PyStr(<<"$">>)}}

StoreParamDefaults == {PyBool(TRUE), PyBool(FALSE), PyStr(<<"|">>), PyInt(0)}

\* def f(<k>, **kwargs): k is declared without a default
SigRequired(k) ==
    <<Param(k, "POSITIONAL_OR_KEYWORD", FALSE, PyNone),
      Param(<<"kwargs">>, "VAR_KEYWORD", FALSE, PyNone)>>

StoreSignatures ==
    {SigPlain, SigRequired(kw_k)}
    \cup {SigDefault(kw_k, v) : v \in StoreParamDefaults}
    \cup {SigKwOnly(kw_k, v) : v \in StoreParamDefaults}

\* log_calls(<key>=<value>) decorates f: max_history is compared with 0 and
\* prefix is concatenated with f.__name__, so these two are an int and a str
StoreInit ==
    \E key \in SettingNames, value \in StoreValues, fparams \in StoreSignatures :
        /\ key = "max_history" => value.t \in {"int", "bool"}
        /\ key = "prefix" => value.t = "str"
        /\ Decorated([x \in {key} |-> value], fparams)
        /\ last = [op |-> "init", key |-> key, value |-> value, raised |-> ""]
        /\ NoWalk
        /\ NoThreads

\* log_calls_settings[key] = value
StoreSet ==
    \E value \in StoreValues :
        /\ tagged' = __setitem__(tagged, last.key, value).d
        /\ last' = [op |-> "set", key |-> last.key, value |-> value,
                    raised |-> __setitem__(tagged, last.key, value).raised]
        /\ UNCHANGED <<f_params, runtime_vars, walker_vars, thread_vars>>

\* log_calls_settings[key]
StoreGet ==
    /\ last' = [op |-> "get", key |-> last.key,
                result |-> __getitem__(tagged, last.key)]
    /\ UNCHANGED <<tagged, f_params, runtime_vars, walker_vars, thread_vars>>

\* get_final_value(key, f_params, kwargs) for the kwargs of some call of f
StoreResolve ==
    \E kwargs \in StoreKwargs :
        /\ last' = [op |-> "resolve", key |-> last.key, kwargs |-> kwargs,
                    result |-> get_final_value(tagged, last.key, f_params, kwargs)]
        /\ UNCHANGED <<tagged, f_params, runtime_vars, walker_vars, thread_vars>>

\* Names that are not settings of log_calls
UnknownNames == {"verbose"}

\* log_calls_settings[name] = value for a name that is no setting
StoreSetUnknown ==
    \E name \in UnknownNames, value \in StoreValues :
        /\ tagged' = __setitem__(tagged, name, value).d
        /\ last' = [op |-> "set_unknown", key |-> last.key, name |-> name,
                    value |-> value,
                    raised |-> __setitem__(tagged, name, value).raised]
        /\ UNCHANGED <<f_params, runtime_vars, walker_vars, thread_vars>>

UpdateValues == {PyBool(FALSE), PyStr(<<"k", "=">>)}

\* log_calls_settings.update(...) with the setting at hand and a name that is
\* no setting, in either order
StoreUpdate ==
    \E name \in UnknownNames, v \in UpdateValues, w \in UpdateValues,
       known_first \in BOOLEAN :
        LET known == [key |-> last.key, value |-> v]
            unknown == [key |-> name, value |-> w]
            d_settings == IF known_first THEN <<known, unknown>>
                          ELSE <<unknown, known>>
        IN  /\ tagged' = update(tagged, d_settings).d
            /\ last' = [op |-> "update", key |-> last.key,
                        d_settings |-> d_settings,
                        raised |-> update(tagged, d_settings).raised]
            /\ UNCHANGED <<f_params, runtime_vars, walker_vars, thread_vars>>

\* log_calls_settings[key] = log_calls_settings[key]
StoreWriteBack ==
    LET value == __getitem__(tagged, last.key)
    IN  /\ tagged' = __setitem__(tagged, last.key, value).d
        /\ last' = [op |-> "write_back", key |-> last.key, value |-> value,
                    raised |-> __setitem__(tagged, last.key, value).raised]
        /\ UNCHANGED <<f_params, runtime_vars, walker_vars, thread_vars>>

StoreNext ==
    \/ StoreSet
    \/ StoreGet
    \/ StoreResolve
    \/ StoreSetUnknown
    \/ StoreUpdate
    \/ StoreWriteBack

SpecStore == StoreInit /\ [][StoreNext]_vars

-----------------------------------------------------------------------------
(* Claims about the settings store, under SpecStore *)

\* f declares k as a keyword-only parameter or as a positional parameter with
\* a default
DeclaresKeyword(k) ==
    \E i \in 1..Len(f_params) :
        /\ f_params[i].name = k
        /\ \/ f_params[i].kind = "KEYWORD_ONLY"
           \/ f_params[i].kind = "POSITIONAL_OR_KEYWORD" /\ f_params[i].has_default

DeclaredDefault(k) ==
    f_params[CHOOSE i \in 1..Len(f_params) : f_params[i].name = k].default

\* C1: the value resolve returns for an indirect setting is, after the fixup,
\* the value the call passes for the keyword k if it passes one, else the
\* default f declares for k if f declares k keyword-capable, else the default
\* of the setting; a direct setting resolves to its stored value whatever the
\* keyword arguments of the call are.
C1_ResolvePrecedence ==
    last.op = "resolve" =>
        LET stored == tagged[last.key]
            info == _setting_info_list[last.key]
            k == stored.value.s
        IN  IF ~stored.indirect
            THEN last.result = stored.value
            ELSE IF k \in DOMAIN last.kwargs
            THEN last.result = fixup(info, last.kwargs[k])
            ELSE IF DeclaresKeyword(k)
            THEN last.result = fixup(info, DeclaredDefault(k))
            ELSE last.result = info.default

\* C1 witness: args_sep='k=' on f(a, k='|', **kwargs), called with k=' $ ':
\* the value passed wins over the declared default and the setting's default
C1_Witness ==
    /\ last.op = "resolve"
    /\ last.key = "args_sep"
    /\ tagged["args_sep"] = [indirect |-> TRUE, value |-> PyStr(kw_k)]
    /\ DeclaresKeyword(kw_k)
    /\ DeclaredDefault(kw_k) = PyStr(<<"|">>)
    /\ kw_k \in DOMAIN last.kwargs
    /\ last.kwargs[kw_k] = PyStr(<<"$">>)
    /\ last.result = PyStr(<<"$">>)

\* C2: a setting whose DecoSetting has allow_falsy=False (args_sep, loglevel)
\* never has a falsy effective value: a direct value stored for it is truthy
\* and every value resolved for it is truthy.
C2_FalsyNeverEffective ==
    \A key \in SettingNames :
        (~_setting_info_list[key].allow_falsy /\ key \in DOMAIN tagged) =>
            /\ ~tagged[key].indirect => Truthy(tagged[key].value)
            /\ (last.op = "resolve" /\ last.key = key) => Truthy(last.result)

\* C9: for args_sep, the str setting that allows indirect values, set with a
\* non-empty str that does not end in '=' stores it as a direct value
\* unchanged, and set with v + '=' for a non-empty v stores the indirect
\* value v.
C9_StrSettingMarker ==
    (/\ last.op \in {"init", "set"}
     /\ _setting_info_list[last.key].allow_indirect
     /\ _setting_info_list[last.key].final_type = "str"
     /\ last.value.t = "str"
     /\ last.value.s # <<>>) =>
        IF last.value.s[Len(last.value.s)] # "="
        THEN tagged[last.key] = [indirect |-> FALSE, value |-> last.value]
        ELSE Len(last.value.s) > 1 =>
                /\ tagged[last.key].indirect
                /\ tagged[last.key].value.t = "str"
                /\ tagged[last.key].value.s \o <<"=">> = last.value.s

\* C9 witness: args_sep = 'k=' has stored the indirect value 'k'
C9_Witness ==
    /\ last.op = "set"
    /\ last.key = "args_sep"
    /\ last.value = PyStr(<<"k", "=">>)
    /\ tagged["args_sep"] = [indirect |-> TRUE, value |-> PyStr(<<"k">>)]

\* C10: for a setting that allows indirect values and is not a str, set with
\* a non-empty str stores an indirect value: the str without its last
\* character if that is '=' (so 'k==' stores 'k='), the str unchanged
\* otherwise.
C10_NonStrSettingIndirect ==
    (/\ last.op \in {"init", "set"}
     /\ _setting_info_list[last.key].allow_indirect
     /\ _setting_info_list[last.key].final_type # "str"
     /\ last.value.t = "str"
     /\ last.value.s # <<>>) =>
        /\ tagged[last.key].indirect
        /\ tagged[last.key].value.t = "str"
        /\ IF last.value.s[Len(last.value.s)] = "="
           THEN tagged[last.key].value.s \o <<"=">> = last.value.s
           ELSE tagged[last.key].value.s = last.value.s

\* C10 witness: enabled = 'k==' has stored the indirect value 'k='
C10_Witness ==
    /\ last.op = "set"
    /\ last.key = "enabled"
    /\ last.value = PyStr(<<"k", "=", "=">>)
    /\ tagged["enabled"] = [indirect |-> TRUE, value |-> PyStr(<<"k", "=">>)]

\* C11: set with a name that is not in the registry raises KeyError and
\* leaves the store as it was, and every key of the store is a name of the
\* registry.
C11_UnknownSetting ==
    /\ [](DOMAIN tagged \subseteq DOMAIN get_settings_for_class)
    /\ [][last'.op = "set_unknown" =>
              /\ last'.name \notin DOMAIN get_settings_for_class
              /\ last'.raised = "KeyError"
              /\ tagged' = tagged]_vars

\* C11 witness: log_calls_settings['verbose'] = True has raised KeyError
C11_Witness ==
    /\ last.op = "set_unknown"
    /\ last.name = "verbose"
    /\ last.value = PyBool(TRUE)
    /\ last.raised = "KeyError"
    /\ "verbose" \notin DOMAIN tagged

\* C21: for a setting that allows indirect values, the value resolve returns
\* when the setting is indirect and the call passes its keyword as v, a value
\* that is no str or is '', is the value that set stores as a direct value
\* when it is given v.
C21_ResolveRevalidatesAsSet ==
    (/\ last.op = "resolve"
     /\ _setting_info_list[last.key].allow_indirect
     /\ tagged[last.key].indirect
     /\ tagged[last.key].value.s \in DOMAIN last.kwargs
     /\ LET v == last.kwargs[tagged[last.key].value.s]
        IN  v.t # "str" \/ v.s = <<>>) =>
        LET v == last.kwargs[tagged[last.key].value.s]
        IN  /\ ~__setitem__(tagged, last.key, v).d[last.key].indirect
            /\ last.result = __setitem__(tagged, last.key, v).d[last.key].value

\* C22: a setting is tagged indirect only if its DecoSetting has
\* allow_indirect=True, and for prefix and max_history, which have not, set
\* stores every value as it is given, as a direct value.
C22_IndirectOnlyWhereAllowed ==
    /\ \A key \in DOMAIN tagged :
          tagged[key].indirect => _setting_info_list[key].allow_indirect
    /\ (/\ last.op \in {"init", "set"}
        /\ ~_setting_info_list[last.key].allow_indirect) =>
           tagged[last.key] = [indirect |-> FALSE, value |-> last.value]

\* C22 witness: prefix = 'k=' is stored as the direct value 'k=', and
\* max_history = None as the direct value None
C22_Witness ==
    /\ last.op = "set"
    /\ \/ /\ last.key = "prefix"
          /\ last.value = PyStr(<<"k", "=">>)
          /\ tagged["prefix"] = [indirect |-> FALSE, value |-> PyStr(<<"k", "=">>)]
       \/ /\ last.key = "max_history"
          /\ last.value = PyNone
          /\ tagged["max_history"] = [indirect |-> FALSE, value |-> PyNone]

\* C28: writing back what get returns leaves the stored pair of the setting
\* as it was, and a set of the value that was set last does too.
C28_StoreRoundTrip ==
    [][/\ last'.op = "write_back" =>
              last'.raised = "" /\ tagged' = tagged
       /\ (last.op = "set" /\ last'.op = "set" /\ last'.value = last.value) =>
              tagged' = tagged]_vars

\* C28 witness: args_sep was set to 'k=', read as 'k=' and written back, and
\* is the indirect value 'k' still
C28_Witness ==
    /\ last.op = "write_back"
    /\ last.key = "args_sep"
    /\ last.value = PyStr(<<"k", "=">>)
    /\ tagged["args_sep"] = [indirect |-> TRUE, value |-> PyStr(<<"k">>)]

-----------------------------------------------------------------------------
(* Claims about the wrapper, the counters and the call history, under Spec *)

Min(a, b) == IF a < b THEN a ELSE b

\* C3: a call whose enabled resolves falsy adds exactly 1 to num_calls_total
\* at the gate and calls f once; neither the gate nor the return of f changes
\* num_calls_logged, the call history or the messages written.
C3_GateFrameEffect ==
    [][/\ (last'.op = "call" /\ ~last'.enabled) =>
              /\ num_calls_total' = num_calls_total + 1
              /\ num_calls_logged' = num_calls_logged
              /\ call_history' = call_history
              /\ sink' = sink
              /\ Len(stack') = Len(stack) + 1
              /\ ~stack'[Len(stack')].logged
       /\ (last'.op = "return" /\ ~last'.enabled) =>
              /\ last'.counted = 1
              /\ num_calls_total' = num_calls_total
              /\ num_calls_logged' = num_calls_logged
              /\ call_history' = call_history
              /\ sink' = sink
              /\ stack' = SubSeq(stack, 1, Len(stack) - 1)]_vars

\* C3 witness: a single call with enabled falsy has returned
C3_Witness ==
    /\ last.op = "return"
    /\ ~last.enabled
    /\ last.counted = 1
    /\ calls.begun = 1
    /\ num_calls_total = 1
    /\ num_calls_logged = 0
    /\ call_history = <<>>
    /\ sink = <<>>

C5_ZeroMeansNoHistory ==
    /\ max_history = 0 => call_history = <<>>
    /\ max_history < 0 => Len(call_history) = Len(calls.recorded)

C7_RaiseCountsNothing ==
    [][last'.op = "raise" =>
          /\ last'.counted = 0
          /\ num_calls_total' = num_calls_total
          /\ num_calls_logged' = num_calls_logged
          /\ call_history' = call_history
          /\ sink' = sink]_vars

\* C12: get returns the stored value of a direct setting and the stored
\* keyword name with '=' appended of an indirect one, items and as_dict agree
\* with get for every key, and no step of a call of the wrapper (its entry,
\* the return of f, f raising) changes what get returns for any setting.
C12_ViewsShowConfigured ==
    /\ [](\A k \in DOMAIN tagged :
            /\ __getitem__(tagged, k) =
                  (IF tagged[k].indirect
                   THEN PyStr(tagged[k].value.s \o <<"=">>)
                   ELSE tagged[k].value)
            /\ items(tagged)[k] = __getitem__(tagged, k)
            /\ as_dict(tagged)[k] = __getitem__(tagged, k))
    /\ [][last'.op \in {"call", "return", "raise"} =>
              \A k \in DOMAIN tagged :
                  /\ k \in DOMAIN tagged'
                  /\ __getitem__(tagged', k) = __getitem__(tagged, k)]_vars

\* C12 witness: enabled='e' and a call that passed e=True has been logged and
\* has returned; get still returns 'e='
C12_Witness ==
    /\ last.op = "return"
    /\ last.enabled
    /\ tagged["enabled"].indirect
    /\ __getitem__(tagged, "enabled") = PyStr(<<"e", "=">>)
    /\ as_dict(tagged)["enabled"] = PyStr(<<"e", "=">>)

\* C14: every call of the wrapper, with enabled truthy or falsy, calls f
\* exactly once, with the positional and keyword arguments of the call
\* unchanged (the keywords that indirect settings name included), and when f
\* returns the wrapper returns the value f returned.
C14_Transparency ==
    [][/\ last'.op = "call" =>
              /\ last'.raised = ""
              /\ Len(stack') = Len(stack) + 1
              /\ SubSeq(stack', 1, Len(stack)) = stack
              /\ stack'[Len(stack')].id = last'.id
              /\ stack'[Len(stack')].f_args = last'.args
              /\ stack'[Len(stack')].f_kwargs = last'.kwargs
       /\ last'.op = "return" =>
              /\ stack' = SubSeq(stack, 1, Len(stack) - 1)
              /\ last'.id = stack[Len(stack)].id
              /\ last'.result = last'.retval]_vars

\* The text of the "return value" message of the call that returned last
RetvalTexts ==
    {sink[i].text : i \in {j \in 1..Len(sink) :
                              sink[j].kind = "retval" /\ sink[j].id = last.id}}

\* C15: when log_retval resolves truthy for a logged call that returned, the
\* text logged for the return value is str(retval) if that has at most
\* MAXLEN_RETVALS (60) characters, and else its first 60 characters followed
\* by '...'; the value returned to the caller is the one f returned.
C15_RetvalRendering ==
    (last.op = "return" /\ last.enabled /\ last.log_retval) =>
        LET q == py_str(last.retval)
        IN  /\ last.result = last.retval
            /\ RetvalTexts # {}
            /\ \A text \in RetvalTexts :
                   IF Len(q) <= 60
                   THEN text = q
                   ELSE /\ Len(text) = 63
                        /\ SubSeq(text, 1, 60) = SubSeq(q, 1, 60)
                        /\ SubSeq(text, 61, 63) = <<".", ".", ".">>

\* C15 witness: a call returned a str of 61 characters and its first 60
\* characters and '...' were logged
C15_Witness ==
    /\ last.op = "return"
    /\ last.enabled
    /\ last.log_retval
    /\ last.retval.t = "str"
    /\ Len(last.retval.s) = 61
    /\ last.result = last.retval
    /\ \E text \in RetvalTexts : Len(text) = 63

\* C16: for every logged call that has a record in the call history, the
\* call number its entry and exit messages display is the call_num of its
\* record.
C16_CallNumberIsRecordNumber ==
    \A i \in 1..Len(call_history), j \in 1..Len(sink) :
        (/\ sink[j].id = call_history[i].id
         /\ sink[j].kind \in {"entry", "exit"}
         /\ sink[j].number # 0) =>
            sink[j].number = call_history[i].call_num

\* C17: the first call of an enabled decorator that was constructed without a
\* log_call_number argument displays its call number in the entry message.
C17_CallNumberShownByDefault ==
    [][(/\ last.op = "init"
        /\ "log_call_number" \notin DOMAIN last.given
        /\ last'.op = "call"
        /\ last'.enabled
        /\ last'.raised = "") =>
            /\ sink' # <<>>
            /\ sink'[Len(sink')].kind = "entry"
            /\ sink'[Len(sink')].number = 1]_vars

CallNumsIncrease(history) ==
    /\ \A i \in 1..Len(history) : history[i].call_num >= 1
    /\ \A i \in 1..Len(history) - 1 :
          history[i].call_num < history[i + 1].call_num

\* C23: a step appends a CallRecord iff it is the return of f in a call for
\* which enabled resolved truthy and record_history resolves truthy; the
\* record appended carries what f returned and the elapsed time of that
\* call; the call_nums of the records are at least 1 and strictly increasing
\* from the oldest to the newest.
C23_HistoryRecords ==
    /\ [](CallNumsIncrease(call_history))
    /\ [][last'.op # "clear_history" =>
             /\ call_history' # call_history <=>
                    /\ last'.op = "return"
                    /\ Top.logged
                    /\ Truthy(_get_final_value("record_history", Top.kwargs))
             /\ call_history' # call_history =>
                    LET rec == call_history'[Len(call_history')]
                    IN  /\ rec.id = last'.id
                        /\ rec.retval = last'.retval
                        /\ rec.elapsed_secs = last'.elapsed_secs]_vars

\* The place of a message among the messages of its call
KindRank(kind) ==
    CASE kind = "entry" -> 0
      [] kind = "retval" -> 1
      [] kind = "elapsed" -> 2
      [] kind = "exit" -> 3

\* The kinds of the messages in msgs, in order
Kinds(msgs) == [i \in 1..Len(msgs) |-> msgs[i].kind]

SuppliedPositionally(k, args) ==
    \E i \in 1..Len(args) :
        /\ i <= Len(f_params)
        /\ f_params[i].name = k
        /\ f_params[i].kind = "POSITIONAL_OR_KEYWORD"

\* C25: for a logged call, the defaulted keyword arguments are the
\* keyword-only parameters and the positional parameters with a default that
\* the call passes neither by position nor by keyword, each with its
\* declared default; the explicit ones are the keywords passed that are such
\* parameters, and the implicit ones are all other keywords passed.
C25_KeywordBuckets ==
    (last.op = "call" /\ last.enabled /\ last.raised = "") =>
        LET explicit == {k \in DOMAIN last.kwargs : DeclaresKeyword(k)}
            defaulted == {k \in param_names(f_params) :
                             /\ DeclaresKeyword(k)
                             /\ k \notin DOMAIN last.kwargs
                             /\ ~SuppliedPositionally(k, last.args)}
        IN  /\ last.explicit_kwargs = [k \in explicit |-> last.kwargs[k]]
            /\ last.implicit_kwargs =
                  [k \in DOMAIN last.kwargs \ explicit |-> last.kwargs[k]]
            /\ last.defaulted_kwargs = [k \in defaulted |-> DeclaredDefault(k)]

-----------------------------------------------------------------------------
(* Writes of max_history and prefix to the settings after decoration *)

CapturedItems ==
    {[key |-> "max_history", value |-> PyInt(0)],
     [key |-> "max_history", value |-> PyInt(1)],
     [key |-> "prefix", value |-> PyStr(<<"p", ".">>)]}

\* log_calls_settings[key] = value, log_calls_settings.<key> = value (the
\* descriptor calls __setitem__) or log_calls_settings.update(<key>=value)
SetCaptured ==
    \E kv \in CapturedItems, via \in {"subscript", "attribute", "update"} :
        LET r == IF via = "update" THEN update(tagged, <<kv>>)
                 ELSE __setitem__(tagged, kv.key, kv.value)
        IN  /\ tagged' = r.d
            /\ last' = [op |-> "set", key |-> kv.key, value |-> kv.value,
                        via |-> via, raised |-> r.raised]
            /\ UNCHANGED <<f_params, runtime_vars, walker_vars, thread_vars>>

\* @log_calls(record_history=True, max_history=<0 or 2>, prefix=<'' or 'q.'>)
CapturedInit ==
    \E m \in {0, 2}, q \in {<<>>, <<"q", ".">>} :
        LET given == [record_history |-> PyBool(TRUE),
                      max_history |-> PyInt(m), prefix |-> PyStr(q)]
        IN  /\ Decorated(given, SigPlain)
            /\ last = [op |-> "init", given |-> given]
            /\ NoWalk
            /\ NoThreads

CapturedNext == Call \/ Return \/ ClearHistory \/ SetCaptured

SpecCaptured == CapturedInit /\ [][CapturedNext]_vars

\* C26: a write of max_history or prefix to the settings changes neither the
\* capacity nor the contents of the history nor the prefix of the names in
\* the messages; only clear_history changes the capacity, and every message
\* carries the prefix given at decoration.
C26_CapturedAtDecoration ==
    /\ [](\A i \in 1..Len(sink) : sink[i].name = prefix \o f_name)
    /\ [][
           /\ last'.op = "set" =>
               /\ history_maxlen' = history_maxlen
               /\ max_history' = max_history
               /\ call_history' = call_history
               /\ prefix' = prefix
           /\ history_maxlen' # history_maxlen => last'.op = "clear_history"
           /\ prefix' = prefix]_vars

\* C26 witness: after decoration with max_history=0 and prefix='', the
\* settings were given max_history 1 and prefix 'p.'; the history has taken
\* two records since, and the message written last is named 'f'
C26_Witness ==
    /\ tagged["max_history"].value = PyInt(1)
    /\ tagged["prefix"].value = PyStr(<<"p", ".">>)
    /\ history_maxlen = 0
    /\ Len(call_history) = 2
    /\ Len(sink) = 4
    /\ sink[4].name = <<"f">>
    /\ sink[4].id = 2

-----------------------------------------------------------------------------
(* The counters and the call history together, under Spec *)

\* C27: whatever calls were made, enabled or not, returned, raised or still
\* in flight, nested or not, and whatever clear_history was given, the call
\* history holds at most num_calls_logged records, num_calls_logged is at
\* most num_calls_total, and with max_history > 0 the call history holds at
\* most max_history records.
C27_CountersBoundHistory ==
    /\ 0 <= Len(call_history)
    /\ Len(call_history) <= num_calls_logged
    /\ num_calls_logged <= num_calls_total
    /\ max_history > 0 => Len(call_history) <= max_history

\* C27 witness: with max_history = 1, a call with enabled falsy and a call
\* with enabled truthy have returned; the one record fills the history, one
\* call is counted as logged and two in total
C27_Witness ==
    /\ max_history = 1
    /\ stack = <<>>
    /\ calls.returned = 2
    /\ calls.returned_enabled = 1
    /\ Len(call_history) = 1
    /\ num_calls_logged = 1
    /\ num_calls_total = 2

-----------------------------------------------------------------------------
(* Arguments passed by position to a parameter an indirect setting names *)

\* The value f receives for its parameter k from f(*args, **kwargs)
received(k, args, kwargs) ==
    IF SuppliedPositionally(k, args)
    THEN args[CHOOSE i \in 1..Len(args) : f_params[i].name = k]
    ELSE IF k \in DOMAIN kwargs
    THEN kwargs[k]
    ELSE param_of(f_params, k).default

\* enabled names a parameter of f that is positional with a default, and the
\* last operation is a call that passes it by position
EnabledPassedByPosition ==
    /\ last.op = "call"
    /\ tagged["enabled"].indirect
    /\ has_param(f_params, tagged["enabled"].value.s)
    /\ param_of(f_params, tagged["enabled"].value.s).kind = "POSITIONAL_OR_KEYWORD"
    /\ param_of(f_params, tagged["enabled"].value.s).has_default
    /\ SuppliedPositionally(tagged["enabled"].value.s, last.args)

\* C29: when enabled names a parameter of f that is positional with a
\* default and the call passes a value for it by position, the call is
\* logged or not as the declared default of the parameter says, after the
\* fixup, whatever value was passed.
C29_PositionalIsNoOverride ==
    EnabledPassedByPosition =>
        last.enabled =
            Truthy(fixup(get_settings_for_class["enabled"],
                         param_of(f_params, tagged["enabled"].value.s).default))

\* C29 witness: enabled='e', def f(a, e=True, **kwargs), and f(1, False) is
\* logged although f receives e = False
C29_Witness ==
    /\ EnabledPassedByPosition
    /\ last.raised = ""
    /\ last.enabled
    /\ received(tagged["enabled"].value.s, last.args, last.kwargs) = PyBool(FALSE)
    /\ sink # <<>>
    /\ sink[Len(sink)].kind = "entry"
    /\ sink[Len(sink)].id = last.id

-----------------------------------------------------------------------------
(* Writes to the settings while f is running *)

LazyItems ==
    {[key |-> "enabled", value |-> PyBool(FALSE)],
     [key |-> "logger", value |-> PyLogger],
     [key |-> "log_call_number", value |-> PyBool(FALSE)],
     [key |-> "log_args", value |-> PyBool(FALSE)],
     [key |-> "args_sep", value |-> PyStr(<<";">>)],
     [key |-> "record_history", value |-> PyBool(FALSE)],
     [key |-> "log_retval", value |-> PyBool(TRUE)],
     [key |-> "log_elapsed", value |-> PyBool(TRUE)],
     [key |-> "log_exit", value |-> PyBool(FALSE)]}

\* log_calls_settings[key] = value, from the body of f
SetInFlight ==
    /\ stack # <<>>
    /\ \E kv \in LazyItems :
          /\ tagged' = __setitem__(tagged, kv.key, kv.value).d
          /\ tagged' # tagged
          /\ last' = [op |-> "set", key |-> kv.key, value |-> kv.value,
                      raised |-> __setitem__(tagged, kv.key, kv.value).raised]
    /\ UNCHANGED <<f_params, runtime_vars, walker_vars, thread_vars>>

\* @log_calls(record_history=True, log_call_number=True)
LazyInit ==
    LET given == [record_history |-> PyBool(TRUE),
                  log_call_number |-> PyBool(TRUE)]
    IN  /\ Decorated(given, SigPlain)
        /\ last = [op |-> "init", given |-> given]
        /\ NoWalk
        /\ NoThreads

LazyNext == Call \/ Return \/ SetInFlight

SpecLazy == LazyInit /\ [][LazyNext]_vars

\* The entry message of the call id
EntryOf(id) ==
    sink[CHOOSE i \in 1..Len(sink) : sink[i].kind = "entry" /\ sink[i].id = id]

\* The kinds of the messages the settings st ask for after f returned
PostKinds(st) ==
    (IF Truthy(st["log_retval"].value) THEN <<"retval">> ELSE <<>>)
    \o (IF Truthy(st["log_elapsed"].value) THEN <<"elapsed">> ELSE <<>>)
    \o (IF Truthy(st["log_exit"].value) THEN <<"exit">> ELSE <<>>)

\* C30: the entry message of a call follows the settings as they are when
\* the wrapper is called.  When a logged call returns, the messages written
\* and the record appended follow log_retval, log_elapsed, log_exit and
\* record_history as the settings hold them then, whatever they held at the
\* entry, while the messages go where the entry message went and the exit
\* message carries the call number of the entry message; a call that has
\* returned can thus have an entry message and no exit message.
C30_LazyResolution ==
    [][
       /\ (last'.op = "call" /\ last'.raised = "") =>
             /\ last'.enabled = Truthy(tagged["enabled"].value)
             /\ last'.enabled =>
                   LET entry == sink'[Len(sink')]
                   IN  /\ Len(sink') = Len(sink) + 1
                       /\ entry.kind = "entry"
                       /\ entry.to_logger = Truthy(tagged["logger"].value)
                       /\ entry.number =
                             (IF Truthy(tagged["log_call_number"].value)
                              THEN num_calls_logged + 1 ELSE 0)
                       /\ entry.text =
                             (IF Truthy(tagged["log_args"].value)
                              THEN tagged["args_sep"].value.s ELSE <<>>)
       /\ (last'.op = "return" /\ last'.enabled) =>
             LET new == SubSeq(sink', Len(sink) + 1, Len(sink'))
                 entry == EntryOf(last'.id)
             IN  /\ Kinds(new) = PostKinds(tagged)
                 /\ Len(call_history') =
                       Len(call_history)
                       + (IF Truthy(tagged["record_history"].value) THEN 1 ELSE 0)
                 /\ \A i \in 1..Len(new) :
                       /\ new[i].id = last'.id
                       /\ new[i].to_logger = entry.to_logger
                       /\ new[i].loglevel = entry.loglevel
                       /\ new[i].kind = "exit" => new[i].number = entry.number
      ]_vars

\* C30 witness: the first call wrote its entry message with print and the
\* number 1; while f ran, the settings were given a logger, enabled=False,
\* log_call_number=False, record_history=False, log_retval=True and
\* log_exit=False; the call returned, wrote its return value with print, no
\* exit message and no record
C30_Witness ==
    /\ last.op = "return"
    /\ last.id = 1
    /\ last.enabled
    /\ ~last.recorded
    /\ stack = <<>>
    /\ tagged["enabled"].value = PyBool(FALSE)
    /\ tagged["logger"].value = PyLogger
    /\ tagged["log_call_number"].value = PyBool(FALSE)
    /\ tagged["log_exit"].value = PyBool(FALSE)
    /\ Kinds(sink) = <<"entry", "retval">>
    /\ sink[1].number = 1
    /\ ~sink[1].to_logger
    /\ ~sink[2].to_logger
    /\ call_history = <<>>
    /\ num_calls_logged = 1

-----------------------------------------------------------------------------
(* call_chain_to_next_log_calls_fn: the walk over the Python frames         *)

\* The co_name of the frames of the wrapper
WRAPPER_NAME == "f_log_calls_wrapper_"

\* A Python frame.  f_globals and f_locals map the names bound to whether the
\* value has the attribute LOG_CALLS_SENTINEL_ATTR; prefixed is the attribute
\* LOG_CALLS_PREFIXED_NAME of f_locals['f'], for a frame of the wrapper.
PyFrame(co_name, f_globals, f_locals, prefixed) ==
    [co_name |-> co_name, f_globals |-> f_globals, f_locals |-> f_locals,
     prefixed |-> prefixed]

\* The globals of the user's module: g and d are decorated, h and encl are not
UserGlobals == [x \in {"g", "h", "encl", "d"} |-> x \in {"g", "d"}]

\* The globals of the module log_calls, where the wrapper is defined
LogCallsGlobals == [x \in {"log_calls", "DecoSettingsMapping"} |-> FALSE]

\* The globals of the module threading
ThreadingGlobals == [x \in {"Thread"} |-> FALSE]

NoLocals == [x \in {} |-> FALSE]

\* The frame of the module itself: its locals are its globals
ModuleFrame == PyFrame("<module>", UserGlobals, UserGlobals, "")

\* The frame of a function or method of the user's module
FnFrame(co_name, f_locals) == PyFrame(co_name, UserGlobals, f_locals, "")

\* A frame of the wrapper: its free variables f, self and prefixed_fname are
\* among its locals; f has the sentinel when it is itself a wrapper
WrapperFrame(prefixed, f_is_wrapper) ==
    PyFrame(WRAPPER_NAME, LogCallsGlobals,
            [x \in {"f", "self", "prefixed_fname", "args", "kwargs"} |->
                x = "f" /\ f_is_wrapper],
            prefixed)

\* A frame of threading.Thread
ThreadFrame(co_name) ==
    PyFrame(co_name, ThreadingGlobals, [x \in {"self"} |-> FALSE], "")

\* The frames one call adds, outermost first: of a global function h, of a
\* method m, of the decorated global function g (prefix 'P.'), of the
\* function encl that defines the decorated inner function inner, of inner,
\* and of the global function d that is decorated twice
CallUnits ==
    {<<FnFrame("h", NoLocals)>>,
     <<FnFrame("m", NoLocals)>>,
     <<WrapperFrame("P.g", FALSE), FnFrame("g", NoLocals)>>,
     <<FnFrame("encl", [x \in {"inner"} |-> TRUE])>>,
     <<WrapperFrame("inner", FALSE), FnFrame("inner", NoLocals)>>,
     <<WrapperFrame("d", TRUE), WrapperFrame("d", FALSE), FnFrame("d", NoLocals)>>}

\* The calls in flight above the caller of the wrapper that walks
MaxCallers == 3

RECURSIVE CallPaths(_)
CallPaths(n) ==
    IF n = 0 THEN {<<>>}
    ELSE CallPaths(n - 1)
         \cup {p \o u : p \in {q \in CallPaths(n - 1) : TRUE}, u \in CallUnits}

\* The outermost frames: of the main thread, and of a threading.Thread
MainThread == <<ModuleFrame>>

OtherThread ==
    <<ThreadFrame("_bootstrap"), ThreadFrame("_bootstrap_inner"), ThreadFrame("run")>>

RECURSIVE Reverse(_)
Reverse(q) == IF q = <<>> THEN <<>> ELSE Append(Reverse(Tail(q)), Head(q))

\* The frames the walker can meet, innermost first: a thread's outermost
\* frames and the calls in flight, where the wrapper that walks may be the
\* inner wrapper of d, called by the outer wrapper of d; or no frame at all,
\* when the wrapper is called by the interpreter itself (atexit)
Stacks ==
    {<<>>}
    \cup {Reverse(base \o p \o w) :
            base \in {MainThread, OtherThread}, p \in CallPaths(MaxCallers),
            w \in {<<>>, <<WrapperFrame("d", TRUE)>>}}

\* f_back of the frame at index i
f_back(i) == IF i < Len(frames) THEN i + 1 ELSE 0

\* curr_frame = sys._getframe(2); found = False; call_list = []
WalkStart ==
    /\ walk_state = "start"
    /\ IF frames = <<>>
       THEN /\ walk_state' = "ValueError"
            /\ UNCHANGED <<curr_frame, call_list, found>>
       ELSE /\ curr_frame' = 1
            /\ found' = FALSE
            /\ call_list' = <<>>
            /\ walk_state' = "loop"
    /\ UNCHANGED <<tagged, f_params, runtime_vars, last, frames, thread_vars>>

\* One iteration of 'while curr_frame:'
WalkStep ==
    /\ walk_state = "loop"
    /\ curr_frame # 0
    /\ LET curr_funcname == frames[curr_frame].co_name
           appended == Append(call_list, curr_funcname)
           back == f_back(curr_frame)
           back2 == f_back(back)
           globs == frames[back].f_globals
           locls == frames[back2].f_locals
           in_globs == curr_funcname \in DOMAIN globs
           in_locls == back2 # 0 /\ curr_funcname \in DOMAIN locls
           has_sentinel == IF in_globs THEN globs[curr_funcname]
                           ELSE IF in_locls THEN locls[curr_funcname]
                           ELSE FALSE
           removed == /\ ~in_globs
                      /\ back2 # 0
                      /\ ~in_locls
                      /\ "prefixed_fname" \in DOMAIN locls
           new_list == IF removed THEN ButLast(appended) ELSE appended
       IN  IF curr_funcname = WRAPPER_NAME
           THEN IF "f" \notin DOMAIN frames[curr_frame].f_locals
                THEN /\ walk_state' = "KeyError"
                     /\ UNCHANGED <<curr_frame, call_list, found>>
                ELSE IF call_list = <<>>
                THEN /\ walk_state' = "IndexError"
                     /\ UNCHANGED <<curr_frame, call_list, found>>
                ELSE /\ call_list' = [call_list EXCEPT
                                         ![Len(call_list)] = frames[curr_frame].prefixed]
                     /\ found' = TRUE
                     /\ walk_state' = "after_loop"
                     /\ UNCHANGED curr_frame
           ELSE IF curr_funcname = "<module>"
           THEN /\ call_list' = appended
                /\ walk_state' = "after_loop"
                /\ UNCHANGED <<curr_frame, found>>
           ELSE IF back = 0
           THEN /\ call_list' = appended
                /\ walk_state' = "AttributeError"
                /\ UNCHANGED <<curr_frame, found>>
           ELSE IF has_sentinel
           THEN /\ call_list' = new_list
                /\ found' = TRUE
                /\ walk_state' = "after_loop"
                /\ UNCHANGED curr_frame
           ELSE /\ call_list' = new_list
                /\ curr_frame' = back
                /\ walk_state' = IF back = 0 THEN "after_loop" ELSE "loop"
                /\ UNCHANGED found
    /\ UNCHANGED <<tagged, f_params, runtime_vars, last, frames, thread_vars>>

\* if not found: call_list = call_list[:1]; return call_list
WalkReturn ==
    /\ walk_state = "after_loop"
    /\ call_list' = IF found \/ call_list = <<>> THEN call_list
                    ELSE <<call_list[1]>>
    /\ walk_state' = "returned"
    /\ UNCHANGED <<tagged, f_params, runtime_vars, last, frames, curr_frame,
                   found, thread_vars>>

\* A wrapper of a decorated function is about to walk the frames of a call
WalkerInit ==
    /\ Decorated([x \in {} |-> PyNone], SigPlain)
    /\ last = [op |-> "init", given |-> [x \in {} |-> PyNone]]
    /\ frames \in Stacks
    /\ curr_frame = 0
    /\ call_list = <<>>
    /\ found = FALSE
    /\ walk_state = "start"
    /\ NoThreads

WalkerNext == WalkStart \/ WalkStep \/ WalkReturn

SpecWalker == WalkerInit /\ [][WalkerNext]_vars

-----------------------------------------------------------------------------
(* Claims about the walker, under SpecWalker *)

\* The names of the frames walked before the frame at index i
NamesBefore(i) == [k \in 1..(i - 1) |-> frames[k].co_name]

\* C18: when the walk has ended at a frame of the wrapper, the chain is the
\* names of the frames walked before it, the last of them replaced by the
\* prefixed name of the function that wrapper wraps; when the walk has ended
\* without finding a decorated function, the chain is the name of the
\* immediate caller alone.
C18_ChainResult ==
    walk_state = "returned" =>
        IF found /\ frames[curr_frame].co_name = WRAPPER_NAME
        THEN /\ curr_frame > 1
             /\ call_list = [NamesBefore(curr_frame) EXCEPT
                                ![curr_frame - 1] = frames[curr_frame].prefixed]
        ELSE ~found => call_list = <<frames[1].co_name>>

\* C19: the walk never raises, whatever the frames are.
C19_WalkNeverRaises ==
    walk_state \in {"idle", "start", "loop", "after_loop", "returned"}

-----------------------------------------------------------------------------
(* Several decorated functions and several threads.  The wrapper is the     *)
(* one modelled above, split into the steps between which another thread    *)
(* can run: x += 1 on an attribute is a load and a store.                   *)

\* The decorator of one function: its settings, counters and call history,
\* the signature of the function, and callee, the decorated function that the
\* body of the function calls with its own **kwargs ("" for none)
Decorator(given, fparams, name, callee) ==
    [tagged |-> settings_mapping_init(init_args(given)),
     f_params |-> fparams,
     prefixed_fname |-> init_args(given).prefix.s \o <<name>>,
     max_history |-> as_int(init_args(given).max_history),
     history_maxlen |-> _make_call_history(as_int(init_args(given).max_history)),
     call_history |-> <<>>,
     num_calls_total |-> 0,
     num_calls_logged |-> 0,
     callee |-> callee]

\* A call of a wrapper in flight: pc is where the wrapper is, loaded the
\* counter value it has read and not yet written back
Activation(fn, id, kwargs, logged, number, to_logger, loglevel, pc) ==
    [fn |-> fn, id |-> id, kwargs |-> kwargs, logged |-> logged,
     number |-> number, to_logger |-> to_logger, loglevel |-> loglevel,
     pc |-> pc, called |-> FALSE, retval |-> PyNone, elapsed_secs |-> 0,
     call_num |-> 0, loaded |-> 0]

\* A message written by logging_fn
ThreadMessage(kind, act, number, text) ==
    [kind |-> kind, id |-> act.id, name |-> deco[act.fn].prefixed_fname,
     number |-> number, text |-> text, to_logger |-> act.to_logger,
     loglevel |-> act.loglevel]

\* The variables of the single decorated function of the other specifications
single_vars == <<tagged, f_params, prefix, max_history, history_maxlen,
                 call_history, num_calls_total, num_calls_logged, stack>>

Threads == DOMAIN threads

ThreadTop(t) == threads[t][Len(threads[t])]

\* The functions no decorated function calls: those the threads call
EntryPoints == {fn \in DOMAIN deco : \A g \in DOMAIN deco : deco[g].callee # fn}

\* The keyword arguments of the calls of fn: none, or the keyword that its
\* enabled setting names, as True and as False
ThreadKwargs(fn) ==
    {NoKwargs}
    \cup (IF deco[fn].tagged["enabled"].indirect
          THEN {OneKwarg(deco[fn].tagged["enabled"].value.s, v) :
                    v \in {PyBool(TRUE), PyBool(FALSE)}}
          ELSE {})

ThreadRetVals == {PyNone}

\* Mutant of inplace_add: the increment is lost
inplace_add_lost(loaded, k) == loaded

\* x += k, once x has been loaded
inplace_add(loaded, k) == loaded + k

\* The co_name of the frame at which the walk of the callers ends when
\* thread t calls a decorated function from outside every decorated function:
\* '<module>' in the main thread, thread 1; a thread started by threading
\* runs under Thread._bootstrap, and its callers include a '<module>' frame
\* only where the thread itself runs module-level code (an import, an exec)
OutermostNames(t) ==
    IF t = 1 THEN {"<module>"} ELSE {"<module>", "_bootstrap"}

\* The wrapper of fn, called by thread t with kwargs, up to the call of f.
\* With enabled falsy the next step is _add_call(logged=False).  With enabled
\* truthy call_chain_to_next_log_calls_fn walks the callers: it returns when
\* it meets a frame of a wrapper (caller_stack is not empty) or '<module>',
\* and raises AttributeError at the outermost frame of a thread.
ThreadEnter(t, caller_stack, fn, id, kwargs, outermost) ==
    LET d == deco[fn]
        final(name) == get_final_value(d.tagged, name, d.f_params, kwargs)
        logger == final("logger")
        number == IF Truthy(final("log_call_number"))
                  THEN d.num_calls_logged + 1 ELSE 0
        log_args == Len(d.f_params) > 0 /\ Truthy(final("log_args"))
        args_sep == IF log_args THEN final("args_sep") ELSE PyNone
        act == Activation(fn, id, kwargs, TRUE, number, Truthy(logger),
                          IF Truthy(logger) THEN as_int(final("loglevel")) ELSE 0,
                          "body")
    IN  IF ~Truthy(final("enabled"))
        THEN /\ threads' = [threads EXCEPT ![t] =
                    Append(caller_stack,
                           Activation(fn, id, kwargs, FALSE, 0, FALSE, 0, "total_load"))]
             /\ last' = [op |-> "call", id |-> id, fn |-> fn, thread |-> t,
                         enabled |-> FALSE, raised |-> "", kwargs |-> kwargs]
             /\ UNCHANGED sink
        ELSE IF caller_stack = <<>> /\ outermost # "<module>"
        THEN /\ threads' = [threads EXCEPT ![t] = caller_stack]
             /\ last' = [op |-> "call", id |-> id, fn |-> fn, thread |-> t,
                         enabled |-> TRUE, raised |-> "AttributeError",
                         kwargs |-> kwargs]
             /\ UNCHANGED sink
        ELSE IF log_args /\ ~Truthy(args_sep)
        THEN /\ threads' = [threads EXCEPT ![t] = caller_stack]
             /\ last' = [op |-> "call", id |-> id, fn |-> fn, thread |-> t,
                         enabled |-> TRUE,
                         raised |-> IF args_sep.t = "str" THEN "IndexError"
                                    ELSE "TypeError",
                         kwargs |-> kwargs]
             /\ UNCHANGED sink
        ELSE /\ threads' = [threads EXCEPT ![t] = Append(caller_stack, act)]
             /\ sink' = Append(sink, ThreadMessage("entry", act, number,
                                                   separator(args_sep.s)))
             /\ last' = [op |-> "call", id |-> id, fn |-> fn, thread |-> t,
                         enabled |-> TRUE, raised |-> "", kwargs |-> kwargs]

\* A thread calls a decorated function, or the body of the function a thread
\* is running calls its callee with the **kwargs it was called with
ThreadCall ==
    \E t \in Threads :
        /\ \/ /\ threads[t] = <<>>
              /\ Len(calls.top) < MaxCalls
              /\ \E fn \in EntryPoints, outermost \in OutermostNames(t) :
                  \E kwargs \in ThreadKwargs(fn) :
                    /\ ThreadEnter(t, <<>>, fn, calls.begun + 1, kwargs,
                                   outermost)
                    /\ calls' = [calls EXCEPT
                          !.begun = @ + 1,
                          !.top = Append(@, kwargs),
                          !.overlapped =
                              @ \/ \E u \in Threads \ {t} : threads[u] # <<>>]
           \/ /\ threads[t] # <<>>
              /\ ThreadTop(t).pc = "body"
              /\ deco[ThreadTop(t).fn].callee # ""
              /\ ~ThreadTop(t).called
              /\ ThreadEnter(t,
                    [threads[t] EXCEPT ![Len(threads[t])].called = TRUE],
                    deco[ThreadTop(t).fn].callee, calls.begun + 1,
                    ThreadTop(t).kwargs, "")
              /\ calls' = [calls EXCEPT !.begun = @ + 1]
        /\ UNCHANGED <<single_vars, walker_vars, deco>>

\* f returns.  With enabled falsy the wrapper returns what f returned; else
\* it goes on to _add_to_history.
ThreadReturnF ==
    \E t \in Threads, retval \in ThreadRetVals, elapsed_secs \in ElapsedSecs :
        /\ threads[t] # <<>>
        /\ ThreadTop(t).pc = "body"
        /\ deco[ThreadTop(t).fn].callee = "" \/ ThreadTop(t).called
        /\ IF ThreadTop(t).logged
           THEN /\ threads' = [threads EXCEPT ![t][Len(threads[t])] =
                       [@ EXCEPT !.retval = retval,
                                 !.elapsed_secs = elapsed_secs,
                                 !.pc = "add_to_history"]]
                /\ last' = [op |-> "f_returned", id |-> ThreadTop(t).id,
                            fn |-> ThreadTop(t).fn, thread |-> t]
                /\ UNCHANGED calls
           ELSE /\ threads' = [threads EXCEPT ![t] = SubSeq(@, 1, Len(@) - 1)]
                /\ last' = [op |-> "return", id |-> ThreadTop(t).id,
                            fn |-> ThreadTop(t).fn, thread |-> t,
                            enabled |-> FALSE, retval |-> retval,
                            result |-> retval]
                /\ calls' = [calls EXCEPT !.returned = @ + 1]
        /\ UNCHANGED <<single_vars, sink, walker_vars, deco>>

\* _add_to_history up to the construction of the CallRecord: record_history
\* is resolved and, if it is truthy, self._num_calls_logged+1 is evaluated
ThreadAddToHistory ==
    \E t \in Threads :
        /\ threads[t] # <<>>
        /\ ThreadTop(t).pc = "add_to_history"
        /\ LET d == deco[ThreadTop(t).fn]
               kwargs == ThreadTop(t).kwargs
               record_history ==
                   record_history_of(d.tagged,
                       _add_to_history_bound(d.f_params, kwargs,
                           ThreadTop(t).retval, ThreadTop(t).elapsed_secs))
           IN  threads' = [threads EXCEPT ![t][Len(threads[t])] =
                   IF Truthy(record_history)
                   THEN [@ EXCEPT !.call_num = d.num_calls_logged + 1,
                                  !.pc = "append"]
                   ELSE [@ EXCEPT !.pc = "total_load"]]
        /\ last' = [op |-> "add_to_history", id |-> ThreadTop(t).id,
                    fn |-> ThreadTop(t).fn, thread |-> t]
        /\ UNCHANGED <<single_vars, sink, calls, walker_vars, deco>>

\* self._call_history.append(CallRecord(...))
ThreadAppend ==
    \E t \in Threads :
        /\ threads[t] # <<>>
        /\ ThreadTop(t).pc = "append"
        /\ LET act == ThreadTop(t)
               d == deco[act.fn]
           IN  deco' = [deco EXCEPT ![act.fn].call_history =
                   history_append(d.call_history, d.history_maxlen,
                       CallRecord(act.call_num, act.id,
                           _add_to_history_bound(d.f_params, act.kwargs,
                               act.retval, act.elapsed_secs).retval,
                           act.elapsed_secs))]
        /\ threads' = [threads EXCEPT ![t][Len(threads[t])].pc = "total_load"]
        /\ last' = [op |-> "append", id |-> ThreadTop(t).id,
                    fn |-> ThreadTop(t).fn, thread |-> t]
        /\ UNCHANGED <<single_vars, sink, calls, walker_vars>>

\* _add_call: the load of self._num_calls_total += 1, and that of
\* self._num_calls_logged += 1
ThreadLoad ==
    \E t \in Threads :
        /\ threads[t] # <<>>
        /\ ThreadTop(t).pc \in {"total_load", "logged_load"}
        /\ threads' = [threads EXCEPT ![t][Len(threads[t])] =
               IF ThreadTop(t).pc = "total_load"
               THEN [@ EXCEPT !.loaded = deco[ThreadTop(t).fn].num_calls_total,
                              !.pc = "total_store"]
               ELSE [@ EXCEPT !.loaded = deco[ThreadTop(t).fn].num_calls_logged,
                              !.pc = "logged_store"]]
        /\ last' = [op |-> "load", id |-> ThreadTop(t).id,
                    fn |-> ThreadTop(t).fn, thread |-> t]
        /\ UNCHANGED <<single_vars, sink, calls, walker_vars, deco>>

\* _add_call: the store of self._num_calls_total += 1, followed by
\* 'if logged:', and the store of self._num_calls_logged += 1
ThreadStore ==
    \E t \in Threads :
        /\ threads[t] # <<>>
        /\ ThreadTop(t).pc \in {"total_store", "logged_store"}
        /\ LET act == ThreadTop(t)
           IN  IF act.pc = "total_store"
               THEN /\ deco' = [deco EXCEPT ![act.fn].num_calls_total =
                                   inplace_add(act.loaded, 1)]
                    /\ threads' = [threads EXCEPT ![t][Len(threads[t])].pc =
                                      IF act.logged THEN "logged_load" ELSE "body"]
               ELSE /\ deco' = [deco EXCEPT ![act.fn].num_calls_logged =
                                   inplace_add(act.loaded, 1)]
                    /\ threads' = [threads EXCEPT ![t][Len(threads[t])].pc = "post"]
        /\ last' = [op |-> "store", id |-> ThreadTop(t).id,
                    fn |-> ThreadTop(t).fn, thread |-> t]
        /\ UNCHANGED <<single_vars, sink, calls, walker_vars>>

\* The messages after the call, and the return of the wrapper
ThreadExit ==
    \E t \in Threads :
        /\ threads[t] # <<>>
        /\ ThreadTop(t).pc = "post"
        /\ LET act == ThreadTop(t)
               d == deco[act.fn]
               final(name) == get_final_value(d.tagged, name, d.f_params, act.kwargs)
               m1 == IF Truthy(final("log_retval"))
                     THEN <<ThreadMessage("retval", act, 0, retval_str(act.retval))>>
                     ELSE <<>>
               m2 == IF Truthy(final("log_elapsed"))
                     THEN <<ThreadMessage("elapsed", act, act.elapsed_secs, <<>>)>>
                     ELSE <<>>
               m3 == IF Truthy(final("log_exit"))
                     THEN <<ThreadMessage("exit", act, act.number, <<>>)>>
                     ELSE <<>>
           IN  /\ sink' = sink \o m1 \o m2 \o m3
               /\ last' = [op |-> "return", id |-> act.id, fn |-> act.fn,
                           thread |-> t, enabled |-> TRUE,
                           retval |-> act.retval, result |-> act.retval]
        /\ threads' = [threads EXCEPT ![t] = SubSeq(@, 1, Len(@) - 1)]
        /\ calls' = [calls EXCEPT !.returned = @ + 1,
                                  !.returned_enabled = @ + 1]
        /\ UNCHANGED <<single_vars, walker_vars, deco>>

ThreadNext ==
    \/ ThreadCall
    \/ ThreadReturnF
    \/ ThreadAddToHistory
    \/ ThreadAppend
    \/ ThreadLoad
    \/ ThreadStore
    \/ ThreadExit

\* calls, where threads run: top lists the keyword arguments of the calls the
\* threads made, overlapped tells whether a thread ever made a call while
\* another thread had one in flight
NoThreadCalls ==
    [begun |-> 0, returned |-> 0, returned_enabled |-> 0, recorded |-> <<>>,
     top |-> <<>>, overlapped |-> FALSE]

\* The variables of the one decorated function f of the other specifications
\* are not used where several decorators are
SingleUnused ==
    /\ tagged = settings_mapping_init(init_args(NoKwargs))
    /\ f_params = SigPlain
    /\ prefix = <<>>
    /\ max_history = 0
    /\ history_maxlen = 0
    /\ call_history = <<>>
    /\ num_calls_total = 0
    /\ num_calls_logged = 0
    /\ stack = <<>>
    /\ sink = <<>>
    /\ calls = NoThreadCalls
    /\ last = [op |-> "init"]
    /\ NoWalk

kw_enable == <<"e", "n", "a", "b", "l", "e">>

\* def func1(a, b, c, **kwargs)
SigFunc1 ==
    <<Param(<<"a">>, "POSITIONAL_OR_KEYWORD", FALSE, PyNone),
      Param(<<"b">>, "POSITIONAL_OR_KEYWORD", FALSE, PyNone),
      Param(<<"c">>, "POSITIONAL_OR_KEYWORD", FALSE, PyNone),
      Param(<<"kwargs">>, "VAR_KEYWORD", FALSE, PyNone)>>

\* def func2(z, **kwargs)
SigFunc2 ==
    <<Param(<<"z">>, "POSITIONAL_OR_KEYWORD", FALSE, PyNone),
      Param(<<"kwargs">>, "VAR_KEYWORD", FALSE, PyNone)>>

\* @log_calls(enabled='enable') def func1(a, b, c, **kwargs): pass
\* @log_calls(enabled='enable') def func2(z, **kwargs): func1(z, z+1, z+2, **kwargs)
\* in one thread; enabled is given as 'enable' or 'enable=', and
\* record_history is left out or given as True
NestedInit ==
    \E e \in {PyStr(kw_enable), PyStr(kw_enable \o <<"=">>)},
       r \in {PyBool(FALSE), PyBool(TRUE)} :
        /\ deco = [fn \in {"func1", "func2"} |->
                      IF fn = "func1"
                      THEN Decorator([enabled |-> e, record_history |-> r],
                                     SigFunc1, "func1", "")
                      ELSE Decorator([enabled |-> e, record_history |-> r],
                                     SigFunc2, "func2", "func1")]
        /\ threads = [t \in {1} |-> <<>>]
        /\ SingleUnused

SpecNested == NestedInit /\ [][ThreadNext]_vars

\* @log_calls(enabled=<True or 'e'>, record_history=True) def f(a, **kwargs)
\* called by two threads
ThreadsInit ==
    \E e \in {PyBool(TRUE), PyStr(kw_e)} :
        /\ deco = [fn \in {"f"} |->
                      Decorator([enabled |-> e, record_history |-> PyBool(TRUE)],
                                SigPlain, "f", "")]
        /\ threads = [t \in {1, 2} |-> <<>>]
        /\ SingleUnused

SpecThreads == ThreadsInit /\ [][ThreadNext]_vars

-----------------------------------------------------------------------------
(* Claims about nested decorated functions, under SpecNested *)

AllIdle == \A t \in Threads : threads[t] = <<>>

\* The name and the kind of every message written, in order
SinkShape == [i \in 1..Len(sink) |-> <<sink[i].name, sink[i].kind>>]

\* The messages of one call func2(.., **kwargs)
ExpectedOfCall(kwargs) ==
    IF kw_enable \in DOMAIN kwargs /\ kwargs[kw_enable] = PyBool(TRUE)
    THEN << <<<<"func2">>, "entry">>, <<<<"func1">>, "entry">>,
            <<<<"func1">>, "exit">>, <<<<"func2">>, "exit">> >>
    ELSE <<>>

RECURSIVE ExpectedOfCalls(_)
ExpectedOfCalls(tops) ==
    IF tops = <<>> THEN <<>>
    ELSE ExpectedOfCall(Head(tops)) \o ExpectedOfCalls(Tail(tops))

\* C13: with func1 and func2 decorated with enabled='enable' and func2
\* passing its **kwargs on to func1, every call func2(.., enable=True) writes
\* the entry of func2, the entry of func1, the exit of func1 and the exit of
\* func2, in this order, and a call of func2 without the keyword or with
\* enable=False writes no message.
C13_NestedEnabling ==
    AllIdle => SinkShape = ExpectedOfCalls(calls.top)

\* C13 witness: func2(17, enable=True) and func2(99) have returned, and the
\* four messages of the first call are all that was written
C13_Witness ==
    /\ AllIdle
    /\ Len(calls.top) = 2
    /\ calls.top[1] = OneKwarg(kw_enable, PyBool(TRUE))
    /\ calls.top[2] = NoKwargs
    /\ calls.returned = 4
    /\ Len(sink) = 4
    /\ sink[1].name = <<"func2">> /\ sink[1].kind = "entry"
    /\ sink[2].name = <<"func1">> /\ sink[2].kind = "entry"

-----------------------------------------------------------------------------
(* Claims about threads, under SpecThreads *)

\* Two records of the call history carry the same call_num
DuplicateCallNum(history) ==
    \E i, j \in 1..Len(history) :
        i < j /\ history[i].call_num = history[j].call_num

\* C20: as long as no thread has made a call while another thread had one
\* in flight, no two records carry the same call_num and, with no call in
\* flight, the counters count the calls made; once calls of two threads have
\* overlapped, an increment can be lost and a call_num can be given twice
\* (the state C20_Witness).
C20_SerializedCallsCount ==
    ~calls.overlapped =>
        /\ \A fn \in DOMAIN deco : ~DuplicateCallNum(deco[fn].call_history)
        /\ AllIdle =>
              \A fn \in DOMAIN deco :
                  /\ deco[fn].num_calls_total = calls.returned
                  /\ deco[fn].num_calls_logged = calls.returned_enabled

\* C20 witness: two threads have called f at the same time, both calls have
\* returned, num_calls_total is 1 and both records have call_num 1
C20_Witness ==
    /\ calls.overlapped
    /\ AllIdle
    /\ "f" \in DOMAIN deco
    /\ calls.returned = 2
    /\ deco["f"].num_calls_total = 1
    /\ Len(deco["f"].call_history) = 2
    /\ DuplicateCallNum(deco["f"].call_history)

====
